---- MODULE Spec2Model ----
(***************************************************************************)
(* LoR Core V3 web-button controller (LoR_v3_Web_buttons.ino).             *)
(*                                                                         *)
(* The firmware serves two HTTP routes: GET "/" (index_handler) and        *)
(* GET "/action?go=CMD" (cmd_handler).  cmd_handler decodes the token,     *)
(* updates the speed selection, writes the twelve servo slots and sets the *)
(* indicator LEDs.  C strings are modelled as sequences of one-character   *)
(* strings, so that strcmp, buffer lengths and truncation are computed.    *)
(***************************************************************************)
EXTENDS Integers, Sequences, FiniteSets, TLC

VARIABLES
    lowSpeed,      \* int lowSpeed   (configured preset, never assigned)
    highSpeed,     \* int highSpeed  (configured preset, never assigned)
    driveSpeed,    \* int driveSpeed (current selection)
    speed,         \* String speed   (label used in the serial log)
    MotorOutput,   \* angle last written to each Servo slot 1..12
    attach,        \* pin and pulse timing each Servo slot is attached with
    leds,          \* CRGB leds[LED_COUNT]
    serial,        \* last line printed on Serial
    resp,          \* HTTP response sent for the last request
    last,          \* the last operation performed, with its input
    boot,          \* position of setup(), whether the HTTP server runs
    selHist,       \* history: the last two speed commands decoded since startup
    page,          \* the control page in a browser: script state and inputs held
    thr            \* executions of cmd_handler in progress, statement by statement

vars == << lowSpeed, highSpeed, driveSpeed, speed, MotorOutput, attach, leds,
           serial, resp, last, boot, selHist, page, thr >>

----------------------------------------------------------------------------
(* Program constants *)

LED_COUNT == 4
NumSlots == 12
LeftLast == 6
QueryBufLen == 128
VariableBufLen == 32
DefaultHighSpeed == 90
DefaultLowSpeed == 60

Slots == 1..NumSlots

(* Bounds of the model *)

MaxSpeed == 101
MaxPct == 103
FarPct == 500
MaxTokenLen == 32
MaxPad == 115

----------------------------------------------------------------------------
(* C strings *)

S_go == << "g", "o" >>
S_high == << "h", "i", "g", "h" >>
S_low == << "l", "o", "w" >>
S_forward == << "f", "o", "r", "w", "a", "r", "d" >>
S_left == << "l", "e", "f", "t" >>
S_right == << "r", "i", "g", "h", "t" >>
S_backward == << "b", "a", "c", "k", "w", "a", "r", "d" >>
S_stop == << "s", "t", "o", "p" >>
S_functionA == << "f", "u", "n", "c", "t", "i", "o", "n", "A" >>
S_functionB == << "f", "u", "n", "c", "t", "i", "o", "n", "B" >>
S_functionC == << "f", "u", "n", "c", "t", "i", "o", "n", "C" >>
S_functionD == << "f", "u", "n", "c", "t", "i", "o", "n", "D" >>

UpperCase == << "A", "B", "C", "D", "E", "F", "G", "H", "I", "J", "K", "L", "M",
                "N", "O", "P", "Q", "R", "S", "T", "U", "V", "W", "X", "Y", "Z" >>
LowerCase == << "a", "b", "c", "d", "e", "f", "g", "h", "i", "j", "k", "l", "m",
                "n", "o", "p", "q", "r", "s", "t", "u", "v", "w", "x", "y", "z" >>

tolower(c) ==
    IF \E i \in 1..Len(UpperCase) : UpperCase[i] = c
    THEN LowerCase[CHOOSE i \in 1..Len(UpperCase) : UpperCase[i] = c]
    ELSE c

\* Mutant: the comparison ignores case (strcasecmp)
strcmp_IgnoreCase(a, b) ==
    IF /\ Len(a) = Len(b)
       /\ \A i \in 1..Len(a) : tolower(a[i]) = tolower(b[i])
    THEN 0 ELSE 1

\* strcmp(a, b): 0 exactly when the two strings are equal byte for byte;
\* otherwise the sign of the first difference (the end of a string is NUL,
\* which sorts before every character).
strcmp(a, b) ==
    IF a = b THEN 0
    ELSE LET n == IF Len(a) < Len(b) THEN Len(a) ELSE Len(b)
             d == { i \in 1..n : a[i] # b[i] }
         IN  IF d = {} THEN (IF Len(a) < Len(b) THEN -1 ELSE 1)
             ELSE 1

\* strncasecmp(a, b, n) over the first n bytes, ignoring case; 0 when equal.
strncasecmp(a, b, n) ==
    IF /\ Len(a) >= n
       /\ Len(b) >= n
       /\ \A i \in 1..n : tolower(a[i]) = tolower(b[i])
    THEN 0 ELSE 1

Fill(c, n) == [i \in 1..n |-> c]

----------------------------------------------------------------------------
(* HTTP request: a route and a query string.  A query string is the list  *)
(* of its '&'-separated parameters, each a key and a value joined by '='. *)

Param(k, v) == [key |-> k, val |-> v]

RECURSIVE QueryLen(_)
\* strlen of the query string: key '=' value for each parameter, '&' between.
QueryLen(q) ==
    IF q = << >> THEN 0
    ELSE Len(Head(q).key) + 1 + Len(Head(q).val)
         + (IF Len(q) > 1 THEN 1 ELSE 0) + QueryLen(Tail(q))

\* httpd_req_get_url_query_str(req, buf, buf_len): ESP_ERR_NOT_FOUND when the
\* URL has no query, ESP_ERR_HTTPD_RESULT_TRUNC when the query and its NUL do
\* not fit in buf_len bytes, else ESP_OK.
httpd_req_get_url_query_str(q, buf_len) ==
    IF QueryLen(q) = 0 THEN "ESP_ERR_NOT_FOUND"
    ELSE IF buf_len < QueryLen(q) + 1 THEN "ESP_ERR_HTTPD_RESULT_TRUNC"
    ELSE "ESP_OK"

\* httpd_query_key_value(qry, key, val, val_size): the first parameter whose
\* key has the length of `key` and equals it ignoring case; its value is
\* copied into val, cut to val_size - 1 bytes.  ESP_ERR_NOT_FOUND when no
\* parameter matches, ESP_ERR_HTTPD_RESULT_TRUNC when the value was cut.
httpd_query_key_value(q, key, val_size) ==
    LET hits == { i \in 1..Len(q) :
                    /\ Len(q[i].key) = Len(key)
                    /\ strncasecmp(q[i].key, key, Len(q[i].key)) = 0 }
    IN  IF hits = {} THEN [err |-> "ESP_ERR_NOT_FOUND", val |-> << >>]
        ELSE LET i == CHOOSE j \in hits : \A k \in hits : j <= k
                 v == q[i].val
             IN  IF val_size < Len(v) + 1
                 THEN [err |-> "ESP_ERR_HTTPD_RESULT_TRUNC",
                       val |-> SubSeq(v, 1, val_size - 1)]
                 ELSE [err |-> "ESP_OK", val |-> v]

----------------------------------------------------------------------------
(* LED helpers *)

LED_SetSolid(G, r, g, b) ==
    [G EXCEPT !.leds = [i \in 0..(LED_COUNT - 1) |-> << r, g, b >>]]

LED_Red(G) == LED_SetSolid(G, 255, 0, 0)
LED_Green(G) == LED_SetSolid(G, 0, 255, 0)
LED_Blue(G) == LED_SetSolid(G, 0, 0, 255)
LED_White(G) == LED_SetSolid(G, 255, 255, 255)
LED_Yellow(G) == LED_SetSolid(G, 255, 255, 0)
\* Mutant: the blue channel is left off (the colour of LED_Yellow's row)
LED_Cyan_NoBlue(G) == LED_SetSolid(G, 0, 255, 0)

LED_Cyan(G) == LED_SetSolid(G, 0, 255, 255)
LED_Purple(G) == LED_SetSolid(G, 255, 0, 255)

Serial_println(G, line) == [G EXCEPT !.serial = line]

----------------------------------------------------------------------------
(* Drive layer *)

\* Mutant: only the lower limit is applied
constrain_LowerOnly(x, lo, hi) == IF x < lo THEN lo ELSE x

\* Arduino constrain(x, lo, hi)
constrain(x, lo, hi) == IF x < lo THEN lo ELSE IF x > hi THEN hi ELSE x

\* C integer division, truncating toward zero (b > 0)
CDiv(a, b) == IF a >= 0 THEN a \div b ELSE -((-a) \div b)

\* Mutant: the quotient is rounded to nearest instead of truncated
map_Rounded(x, in_min, in_max, out_min, out_max) ==
    CDiv(2 * (x - in_min) * (out_max - out_min) + (in_max - in_min),
         2 * (in_max - in_min)) + out_min

\* Arduino map(x, in_min, in_max, out_min, out_max)
map(x, in_min, in_max, out_min, out_max) ==
    CDiv((x - in_min) * (out_max - out_min), in_max - in_min) + out_min

\* Mutant: the percentage is mapped from [0,100], as if it were unsigned
percentToServoAngle_Unsigned(pct) ==
    LET p == constrain(pct, -100, 100)
        ang == map(p, 0, 100, 0, 180)
    IN  constrain(ang, 0, 180)

\* Mutant: neither the percentage nor the angle is constrained
percentToServoAngle_Unclamped(pct) == map(pct, -100, 100, 0, 180)

percentToServoAngle(pct) ==
    LET p == constrain(pct, -100, 100)
        ang == map(p, -100, 100, 0, 180)
    IN  constrain(ang, 0, 180)

\* MotorOutput[s].write(angle) for s = first..lastSlot
WriteSlots(G, first, lastSlot, angle) ==
    [G EXCEPT !.MotorOutput =
        [s \in Slots |-> IF first <= s /\ s <= lastSlot THEN angle
                         ELSE G.MotorOutput[s]]]

Left_Group_Write(G, pct) ==
    WriteSlots(G, 1, LeftLast, percentToServoAngle(pct))

Right_Group_Write(G, pct) ==
    WriteSlots(G, LeftLast + 1, NumSlots, percentToServoAngle(pct))

\* Mutant: the two arguments are handed to the wrong groups
Motor_Control_Swapped(G, LeftPct, RightPct) ==
    Right_Group_Write(Left_Group_Write(G, RightPct), LeftPct)

Motor_Control(G, LeftPct, RightPct) ==
    Right_Group_Write(Left_Group_Write(G, LeftPct), RightPct)

\* Mutant: a soft stop that moves every slot halfway to neutral
Motor_STOP_Halfway(G) ==
    [G EXCEPT !.MotorOutput =
        [s \in Slots |-> (G.MotorOutput[s] + 90) \div 2]]

\* Mutant: the loop stops one slot short (s < 12)
Motor_STOP_OffByOne(G) == WriteSlots(G, 1, NumSlots - 1, 90)

Motor_STOP(G) == WriteSlots(G, 1, NumSlots, 90)

(* Command bindings *)

functionForward(G) == Motor_Control(G, -G.driveSpeed, G.driveSpeed)
functionBackward(G) == Motor_Control(G, G.driveSpeed, -G.driveSpeed)
functionLeft(G) == Motor_Control(G, -G.driveSpeed, -G.driveSpeed)
functionRight(G) == Motor_Control(G, G.driveSpeed, G.driveSpeed)
\* Mutant: stopping also falls back to the low preset
functionStop_ResetSpeed(G) ==
    [Motor_STOP(G) EXCEPT !.driveSpeed = G.lowSpeed, !.speed = "Low"]

functionStop(G) == Motor_STOP(G)
functionA(G) == G
functionB(G) == G
functionC(G) == G
functionD(G) == G

----------------------------------------------------------------------------
(* Motor profiles and slot configuration *)

IO_PINS == << 32, 25, 26, 27, 14, 12, 13, 15, 2, 4, 22, 21 >>

MotorTypes == { "MG90_CR", "MG90_Degree", "N20Plus", "STD_SERVO",
                "Victor_SPX", "Talon_SRX", "CUSTOM" }

motorTypeConfigs ==
    << [type |-> "MG90_CR",     pwmFreq |-> 50, minPulseUs |-> 500,  maxPulseUs |-> 2500],
       [type |-> "MG90_Degree", pwmFreq |-> 50, minPulseUs |-> 500,  maxPulseUs |-> 2500],
       [type |-> "N20Plus",     pwmFreq |-> 50, minPulseUs |-> 1000, maxPulseUs |-> 2000],
       [type |-> "Victor_SPX",  pwmFreq |-> 50, minPulseUs |-> 1000, maxPulseUs |-> 2000],
       [type |-> "Talon_SRX",   pwmFreq |-> 50, minPulseUs |-> 1000, maxPulseUs |-> 2000],
       [type |-> "STD_SERVO",   pwmFreq |-> 50, minPulseUs |-> 1000, maxPulseUs |-> 2000] >>

\* Mutant: a type that is not in the table gets the table's first entry
ProfileFor_FirstEntryDefault(motorType) ==
    LET hits == { i \in 1..Len(motorTypeConfigs) :
                    motorTypeConfigs[i].type = motorType }
        c == motorTypeConfigs[IF hits = {} THEN 1
                              ELSE CHOOSE i \in hits : \A j \in hits : i <= j]
    IN  [pwmFreq |-> c.pwmFreq, minPulseUs |-> c.minPulseUs,
         maxPulseUs |-> c.maxPulseUs]

\* The timing ConfigureMotorOutput attaches with: the first table entry of
\* the type, else the defaults its locals start with.
ProfileFor(motorType) ==
    LET hits == { i \in 1..Len(motorTypeConfigs) :
                    motorTypeConfigs[i].type = motorType }
    IN  IF hits = {}
        THEN [pwmFreq |-> 50, minPulseUs |-> 1000, maxPulseUs |-> 2000]
        ELSE LET c == motorTypeConfigs[CHOOSE i \in hits : \A j \in hits : i <= j]
             IN  [pwmFreq |-> c.pwmFreq, minPulseUs |-> c.minPulseUs,
                  maxPulseUs |-> c.maxPulseUs]

ConfigureMotorOutput(G, slot, motorType, startupPositionDeg) ==
    LET prof == ProfileFor(motorType)
        G1 == [G EXCEPT !.attach[slot] =
                  [pin |-> IO_PINS[slot], pwmFreq |-> prof.pwmFreq,
                   minPulseUs |-> prof.minPulseUs,
                   maxPulseUs |-> prof.maxPulseUs]]
    IN  WriteSlots(G1, slot, slot, startupPositionDeg)

----------------------------------------------------------------------------
(* HTTP handlers *)

Response(status, ctype, hdrs, body) ==
    [status |-> status, type |-> ctype, hdrs |-> hdrs, body |-> body]

NoResponse == Response(0, "", {}, "")
httpd_resp_send_404 == Response(404, "text/html", {}, "error")
httpd_resp_send_500 == Response(500, "text/html", {}, "error")

\* GET "/"
index_handler(G) ==
    [G |-> LED_Red(G), resp |-> Response(200, "text/html", {}, "INDEX_HTML")]

\* Mutant: the label and the LED change, driveSpeed is not assigned
SelectHigh_Stale(G) ==
    LED_Purple([Serial_println(G, << "High Speed" >>) EXCEPT !.speed = "High"])

\* Branch "high": driveSpeed = highSpeed; speed = "High"; LED_Purple()
SelectHigh(G) ==
    LED_Purple([Serial_println(G, << "High Speed" >>)
                  EXCEPT !.driveSpeed = G.highSpeed, !.speed = "High"])

\* Mutant: selecting the low speed also stops the motors
SelectLow_Stops(G) ==
    Motor_STOP(LED_Yellow([Serial_println(G, << "Low Speed" >>)
                             EXCEPT !.driveSpeed = G.lowSpeed, !.speed = "Low"]))

\* Mutant: the label and the LED change, driveSpeed is not assigned
SelectLow_Stale(G) ==
    LED_Yellow([Serial_println(G, << "Low Speed" >>) EXCEPT !.speed = "Low"])

\* Branch "low": driveSpeed = lowSpeed; speed = "Low"; LED_Yellow()
SelectLow(G) ==
    LED_Yellow([Serial_println(G, << "Low Speed" >>)
                  EXCEPT !.driveSpeed = G.lowSpeed, !.speed = "Low"])

\* The final else: LED_Red(); Motor_STOP()  (res = -1 is set by the decoder)
UnknownCommand(G) ==
    Motor_STOP(LED_Red(Serial_println(G, << "Stop (unknown cmd)" >>)))

\* The if / else-if chain of cmd_handler on the parsed token: the globals
\* after the branch taken, and res.
CommandDecoder(G, variable) ==
    IF strcmp(variable, S_high) = 0 THEN
        [G |-> SelectHigh(G), res |-> 0]
    ELSE IF strcmp(variable, S_low) = 0 THEN
        [G |-> SelectLow(G), res |-> 0]
    ELSE IF strcmp(variable, S_forward) = 0 THEN
        [G |-> functionForward(Serial_println(G, << "Forward ", G.speed >>)),
         res |-> 0]
    ELSE IF strcmp(variable, S_left) = 0 THEN
        [G |-> functionLeft(Serial_println(G, << "Left ", G.speed >>)),
         res |-> 0]
    ELSE IF strcmp(variable, S_right) = 0 THEN
        [G |-> functionRight(Serial_println(G, << "Right ", G.speed >>)),
         res |-> 0]
    ELSE IF strcmp(variable, S_backward) = 0 THEN
        [G |-> functionBackward(Serial_println(G, << "Backward ", G.speed >>)),
         res |-> 0]
    ELSE IF strcmp(variable, S_stop) = 0 THEN
        [G |-> LED_Red(functionStop(Serial_println(G, << "Stop" >>))),
         res |-> 0]
    ELSE IF strcmp(variable, S_functionA) = 0 THEN
        [G |-> functionA(LED_Cyan(Serial_println(G, << "Function A" >>))),
         res |-> 0]
    ELSE IF strcmp(variable, S_functionB) = 0 THEN
        [G |-> functionB(LED_Cyan(Serial_println(G, << "Function B" >>))),
         res |-> 0]
    ELSE IF strcmp(variable, S_functionC) = 0 THEN
        [G |-> functionC(LED_Cyan(Serial_println(G, << "Function C" >>))),
         res |-> 0]
    ELSE IF strcmp(variable, S_functionD) = 0 THEN
        [G |-> functionD(LED_Cyan(Serial_println(G, << "Function D" >>))),
         res |-> 0]
    ELSE
        [G |-> UnknownCommand(G), res |-> -1]

\* Mutant: res is ignored, every decoded token is answered 200
CommandResponse_IgnoreRes(res) ==
    Response(200, "text/html", { << "Access-Control-Allow-Origin", "*" >> }, "")

\* The response cmd_handler sends once the decoder has run
CommandResponse(res) ==
    IF res # 0 THEN httpd_resp_send_500
    ELSE Response(200, "text/html",
                  { << "Access-Control-Allow-Origin", "*" >> }, "")

\* Mutant: the two parse failures are joined by && instead of ||
cmd_handler_BothFail(G, query) ==
    IF /\ httpd_req_get_url_query_str(query, QueryBufLen) # "ESP_OK"
       /\ httpd_query_key_value(query, S_go, VariableBufLen).err # "ESP_OK"
    THEN [G |-> G, resp |-> httpd_resp_send_404]
    ELSE LET variable == httpd_query_key_value(query, S_go, VariableBufLen).val
             d == CommandDecoder(LED_Green(G), variable)
         IN  [G |-> d.G, resp |-> CommandResponse(d.res)]

\* GET "/action?<query>"
cmd_handler(G, query) ==
    IF \/ httpd_req_get_url_query_str(query, QueryBufLen) # "ESP_OK"
       \/ httpd_query_key_value(query, S_go, VariableBufLen).err # "ESP_OK"
    THEN [G |-> G, resp |-> httpd_resp_send_404]
    ELSE LET variable == httpd_query_key_value(query, S_go, VariableBufLen).val
             d == CommandDecoder(LED_Green(G), variable)
         IN  [G |-> d.G, resp |-> CommandResponse(d.res)]

----------------------------------------------------------------------------
(* Startup *)

\* Globals as the static initialisers leave them, before setup() runs.  An
\* unattached slot has no angle written yet (-1).
PowerOn(lo, hi) ==
    [lowSpeed |-> lo, highSpeed |-> hi, driveSpeed |-> lo, speed |-> "low",
     MotorOutput |-> [s \in Slots |-> -1],
     attach |-> [s \in Slots |-> [pin |-> -1, pwmFreq |-> 0,
                                  minPulseUs |-> 0, maxPulseUs |-> 0]],
     leds |-> [i \in 0..(LED_COUNT - 1) |-> << 0, 0, 0 >>],
     serial |-> << >>]

RECURSIVE ConfigureSlotsUpTo(_, _, _)
\* for (s = 1; s <= n; ++s) ConfigureMotorOutput(s, motorType, 90)
ConfigureSlotsUpTo(G, n, motorType) ==
    IF n = 0 THEN G
    ELSE ConfigureMotorOutput(ConfigureSlotsUpTo(G, n - 1, motorType),
                              n, motorType, 90)

setup(G) ==
    LET G1 == LED_Blue(Serial_println(G, << "Serial Begin" >>))
        G2 == ConfigureSlotsUpTo(Serial_println(G1, << "Motors Startup" >>),
                                 NumSlots - 1, "N20Plus")
        G3 == ConfigureMotorOutput(G2, NumSlots, "MG90_CR", 90)
        G4 == Serial_println(G3, << "WiFi start" >>)
    IN  Serial_println(LED_White(G4), << "MiniBot System Ready!" >>)

\* Mutant: the server is started before the motor slots are configured
SetupStages_ServerFirst ==
    << [op |-> "println", arg |-> << "Serial Begin" >>],
       [op |-> "LED_Blue"],
       [op |-> "WifiSetup"],
       [op |-> "startServer"],
       [op |-> "println", arg |-> << "Motors Startup" >>] >>
    \o [s \in 1..(NumSlots - 1) |->
          [op |-> "ConfigureMotorOutput", slot |-> s, which |-> "main"]]
    \o << [op |-> "ConfigureMotorOutput", slot |-> NumSlots, which |-> "last"],
          [op |-> "LED_White"],
          [op |-> "println", arg |-> << "MiniBot System Ready!" >>] >>

\* The statements of setup() that change state, in program order.  which:
\* the motor type argument ("main" for the loop over slots 1..11, "last"
\* for slot 12).
SetupStages ==
    << [op |-> "println", arg |-> << "Serial Begin" >>],
       [op |-> "LED_Blue"],
       [op |-> "println", arg |-> << "Motors Startup" >>] >>
    \o [s \in 1..(NumSlots - 1) |->
          [op |-> "ConfigureMotorOutput", slot |-> s, which |-> "main"]]
    \o << [op |-> "ConfigureMotorOutput", slot |-> NumSlots, which |-> "last"],
          [op |-> "WifiSetup"],
          [op |-> "startServer"],
          [op |-> "LED_White"],
          [op |-> "println", arg |-> << "MiniBot System Ready!" >>] >>

\* The motor types setup() passes as shipped
ShippedTypes == [main |-> "N20Plus", last |-> "MG90_CR"]

\* The globals after one statement of setup()
RunStage(G, st, types) ==
    IF st.op = "println" THEN Serial_println(G, st.arg)
    ELSE IF st.op = "LED_Blue" THEN LED_Blue(G)
    ELSE IF st.op = "ConfigureMotorOutput"
         THEN ConfigureMotorOutput(G, st.slot, types[st.which], 90)
    ELSE IF st.op = "WifiSetup" THEN Serial_println(G, << "WiFi start" >>)
    ELSE IF st.op = "LED_White" THEN LED_White(G)
    ELSE G

----------------------------------------------------------------------------
(* Inputs *)

RecognizedTokens ==
    { S_forward, S_backward, S_left, S_right, S_stop, S_low, S_high,
      S_functionA, S_functionB, S_functionC, S_functionD }

\* Tokens outside the recognized set: empty, a plain word, wrong case, a
\* proper prefix and a proper extension of a recognized token, and tokens
\* around the size of the handler's token buffer.
ShortUnknownTokens ==
    { << >>,
      << "b", "a", "n", "a", "n", "a" >>,
      << "S", "t", "o", "p" >>,
      << "s", "t", "o" >>,
      << "s", "t", "o", "p", "p" >> }

LongTokens ==
    { Fill("x", n) : n \in (VariableBufLen - 1)..MaxTokenLen }
    \cup { S_stop \o Fill("p", MaxTokenLen - Len(S_stop)) }

Tokens == RecognizedTokens \cup ShortUnknownTokens \cup LongTokens

PadLens == (QueryBufLen - 14)..MaxPad

\* Query strings: none, go=<token>, a padding parameter before go=<token>
\* (around the size of the handler's query buffer), the key in upper case,
\* a different key, and go given twice.
Queries ==
    { << >> }
    \cup { << Param(S_go, t) >> : t \in Tokens }
    \cup { << Param(<< "x" >>, Fill("x", n)), Param(S_go, t) >> :
             n \in PadLens,
             t \in { S_forward, << "i", "n", "v", "a", "l", "i", "d" >> } }
    \cup { << Param(<< "G", "O" >>, S_forward) >>,
           << Param(<< "g", "o", "t", "o" >>, S_forward) >>,
           << Param(<< "x" >>, << "1" >>), Param(S_go, S_right) >>,
           << Param(S_go, S_stop), Param(S_go, S_forward) >> }

\* Configured presets <<lowSpeed, highSpeed>>: the shipped ones, and presets
\* that are zero, negative or beyond +-100 percent.
SpeedConfigs ==
    { << DefaultLowSpeed, DefaultHighSpeed >>,
      << 0, MaxSpeed >>,
      << -MaxSpeed, FarPct >>,
      << DefaultHighSpeed, -FarPct >> }

----------------------------------------------------------------------------
(* The control page (INDEX_HTML): its script state, and the requests it    *)
(* has issued, in the order of the calls of sendData.                      *)

MaxSent == 4

\* Buttons of the page; each sends the command of its name on pointerdown
Buttons ==
    { "forward", "left", "stop", "right", "backward",
      "functionA", "functionB", "functionC", "functionD" }

keyMap ==
    [code \in { "ArrowUp", "ArrowLeft", "ArrowDown", "ArrowRight",
                "KeyW", "KeyA", "KeyS", "KeyD", "KeyL", "KeyH",
                "Digit1", "Digit2", "Digit3", "Digit4",
                "Numpad1", "Numpad2", "Numpad3", "Numpad4" } |->
       CASE code \in { "ArrowUp", "KeyW" } -> "forward"
         [] code \in { "ArrowLeft", "KeyA" } -> "left"
         [] code \in { "ArrowDown", "KeyS" } -> "backward"
         [] code \in { "ArrowRight", "KeyD" } -> "right"
         [] code = "KeyL" -> "low"
         [] code = "KeyH" -> "high"
         [] code \in { "Digit1", "Numpad1" } -> "functionA"
         [] code \in { "Digit2", "Numpad2" } -> "functionB"
         [] code \in { "Digit3", "Numpad3" } -> "functionC"
         [] code \in { "Digit4", "Numpad4" } -> "functionD"]

\* The script state when the page has loaded; the toggle starts unchecked
ScriptLoaded == [isButtonPressed |-> FALSE, checked |-> FALSE, sent |-> << >>]

\* sendData(x): issue GET /action?go=x
sendData(J, x) == [J EXCEPT !.sent = Append(@, x)]

\* Mutant: the flag is cleared and nothing is sent
releaseData_FlagOnly(J) == [J EXCEPT !.isButtonPressed = FALSE]

releaseData(J) == sendData([J EXCEPT !.isButtonPressed = FALSE], "stop")

\* The keydown listener, for a key event with this code
OnKeyDown(J, code) ==
    IF ~J.isButtonPressed
    THEN [(IF code \in DOMAIN keyMap THEN sendData(J, keyMap[code]) ELSE J)
            EXCEPT !.isButtonPressed = TRUE]
    ELSE J

\* The keyup listener
OnKeyUp(J) == releaseData(J)

\* The change listener of the toggle, after the browser has flipped it
OnToggleChange(J) ==
    LET K == [J EXCEPT !.checked = ~@]
    IN  sendData(K, IF K.checked THEN "high" ELSE "low")

\* Keys of the events: two that are mapped and one that is not
KeySample == { "KeyW", "KeyH", "KeyX" }

\* Where the pointer goes down or up: on a button, or off every button
PointerTargets == { "forward", "stop", "functionA", "elsewhere" }

NoEvent == [type |-> "load", target |-> "", press |-> "", idx |-> 0]

\* pointer.on: where the pointer went down.  pointer.idx, keys[k]: position
\* in sent of the command sent by the press that holds the pointer or key
\* down (0 when that press sent nothing); keys[k] = -1 when key k is up.
\* event.press: for a release, the control whose press it ends.
\* sinceKeyUp: the commands the keydown listener has sent since the last
\* keyup event (since the page was loaded, before the first)
PageLoaded ==
    [js |-> ScriptLoaded,
     pointer |-> [down |-> FALSE, on |-> "", idx |-> 0],
     keys |-> [k \in KeySample |-> -1],
     event |-> NoEvent,
     sinceKeyUp |-> 0]

\* The position of the command a handler has just sent, 0 when it sent none
SentBy(J, K) == IF Len(K.sent) > Len(J.sent) THEN Len(K.sent) ELSE 0

\* The command the press of a control is meant to send
PressCommand(target) ==
    IF target \in Buttons THEN target
    ELSE IF target \in DOMAIN keyMap THEN keyMap[target]
    ELSE "none"

----------------------------------------------------------------------------
(* One execution of cmd_handler, statement by statement *)

Threads == 1..2

\* status: idle (no request), run (inside cmd_handler), done (response sent).
\* a1, order, L, R, res: locals and temporaries of the execution.
\* trace: the statements executed so far; concurrent: another execution
\* was inside cmd_handler at some time during this one; start: the globals
\* on entry, kept for an execution that entered alone.
IdleThread ==
    [status |-> "idle", query |-> << >>, variable |-> << >>, pc |-> 0,
     a1 |-> 0, order |-> "", L |-> 0, R |-> 0, res |-> 0,
     trace |-> << >>, start |-> << >>, concurrent |-> FALSE]

\* MotorOutput[s].write(90) for s = 1..12, one statement per slot
StopWrites == [s \in 1..NumSlots |-> [op |-> "write", slot |-> s, from |-> "neutral"]]

\* Motor_Control(signL * driveSpeed, signR * driveSpeed): the two reads of
\* driveSpeed for the arguments, then one write per slot, left group first
DriveStatements(signL, signR) ==
    << [op |-> "read1"], [op |-> "read2", signL |-> signL, signR |-> signR] >>
    \o [s \in 1..LeftLast |-> [op |-> "write", slot |-> s, from |-> "L"]]
    \o [s \in 1..(NumSlots - LeftLast) |->
          [op |-> "write", slot |-> LeftLast + s, from |-> "R"]]

\* Mutant: the stopped indicator is set before the slots are written
StopBranch_RedFirst ==
    << [op |-> "println", text |-> << "Stop" >>], [op |-> "LED_Red"] >>
    \o StopWrites

\* Branch "stop": Serial.println("Stop"); functionStop(); LED_Red()
StopBranch ==
    << [op |-> "println", text |-> << "Stop" >>] >>
    \o StopWrites \o << [op |-> "LED_Red"] >>

\* The final else: println; LED_Red(); Motor_STOP(); res = -1
UnknownBranch ==
    << [op |-> "println", text |-> << "Stop (unknown cmd)" >>],
       [op |-> "LED_Red"] >>
    \o StopWrites \o << [op |-> "setRes", val |-> -1] >>

SpeedBranch(text, from, label, led) ==
    << [op |-> "println", text |-> << text >>],
       [op |-> "assignDriveSpeed", from |-> from],
       [op |-> "assignSpeed", val |-> label],
       [op |-> led] >>

DriveBranch(text, signL, signR) ==
    << [op |-> "printlnSpeed", text |-> text] >> \o DriveStatements(signL, signR)

\* The body of functionA..D is empty
HookBranch(text) ==
    << [op |-> "println", text |-> << text >>], [op |-> "LED_Cyan"] >>

\* The statements cmd_handler executes once the token is parsed, in order
Statements(variable) ==
    << [op |-> "LED_Green"] >>
    \o (IF strcmp(variable, S_high) = 0 THEN
            SpeedBranch("High Speed", "highSpeed", "High", "LED_Purple")
        ELSE IF strcmp(variable, S_low) = 0 THEN
            SpeedBranch("Low Speed", "lowSpeed", "Low", "LED_Yellow")
        ELSE IF strcmp(variable, S_forward) = 0 THEN
            DriveBranch("Forward ", -1, 1)
        ELSE IF strcmp(variable, S_left) = 0 THEN
            DriveBranch("Left ", -1, -1)
        ELSE IF strcmp(variable, S_right) = 0 THEN
            DriveBranch("Right ", 1, 1)
        ELSE IF strcmp(variable, S_backward) = 0 THEN
            DriveBranch("Backward ", 1, -1)
        ELSE IF strcmp(variable, S_stop) = 0 THEN StopBranch
        ELSE IF strcmp(variable, S_functionA) = 0 THEN HookBranch("Function A")
        ELSE IF strcmp(variable, S_functionB) = 0 THEN HookBranch("Function B")
        ELSE IF strcmp(variable, S_functionC) = 0 THEN HookBranch("Function C")
        ELSE IF strcmp(variable, S_functionD) = 0 THEN HookBranch("Function D")
        ELSE UnknownBranch)
    \o << [op |-> "respond"] >>

\* Mutant: the argument is read from the low preset
ReadDriveSpeed_Preset(G) == G.lowSpeed

\* One read of the global driveSpeed
ReadDriveSpeed(G) == G.driveSpeed

\* The globals after statement st of an execution with locals T.  c.order:
\* which argument of Motor_Control is evaluated first (unspecified);
\* c.fresh: whether the second argument reads driveSpeed again or reuses
\* the value already read (both are translations of the unsynchronised
\* access).
StatementGlobals(G, T, st) ==
    CASE st.op = "LED_Green" -> LED_Green(G)
      [] st.op = "LED_Red" -> LED_Red(G)
      [] st.op = "LED_Purple" -> LED_Purple(G)
      [] st.op = "LED_Yellow" -> LED_Yellow(G)
      [] st.op = "LED_Cyan" -> LED_Cyan(G)
      [] st.op = "println" -> Serial_println(G, st.text)
      [] st.op = "printlnSpeed" -> Serial_println(G, << st.text, G.speed >>)
      [] st.op = "assignDriveSpeed" ->
           [G EXCEPT !.driveSpeed = IF st.from = "highSpeed" THEN G.highSpeed
                                    ELSE G.lowSpeed]
      [] st.op = "assignSpeed" -> [G EXCEPT !.speed = st.val]
      [] st.op = "write" ->
           WriteSlots(G, st.slot, st.slot,
                      IF st.from = "neutral" THEN 90
                      ELSE IF st.from = "L" THEN percentToServoAngle(T.L)
                      ELSE percentToServoAngle(T.R))
      [] OTHER -> G

\* The locals after statement st
StatementLocals(G, T, st, c) ==
    LET U == [T EXCEPT !.pc = @ + 1, !.trace = Append(@, st.op)]
    IN  CASE st.op = "read1" ->
               [U EXCEPT !.a1 = ReadDriveSpeed(G), !.order = c.order]
          [] st.op = "read2" ->
               LET a2 == IF c.fresh THEN ReadDriveSpeed(G) ELSE T.a1
               IN  [U EXCEPT
                      !.L = st.signL * (IF T.order = "LR" THEN T.a1 ELSE a2),
                      !.R = st.signR * (IF T.order = "LR" THEN a2 ELSE T.a1),
                      !.a1 = 0, !.order = ""]
          [] st.op = "setRes" -> [U EXCEPT !.res = st.val]
          [] st.op = "respond" -> [U EXCEPT !.status = "done"]
          [] OTHER -> U

\* The choices the translation of statement st leaves open
ChoicesAt(st) ==
    IF st.op = "read1" THEN [order : { "LR", "RL" }, fresh : { TRUE }]
    ELSE IF st.op = "read2" THEN [order : { "" }, fresh : BOOLEAN]
    ELSE [order : { "" }, fresh : { TRUE }]

----------------------------------------------------------------------------
(* State machine *)

Globals ==
    [lowSpeed |-> lowSpeed, highSpeed |-> highSpeed, driveSpeed |-> driveSpeed,
     speed |-> speed, MotorOutput |-> MotorOutput, attach |-> attach,
     leds |-> leds, serial |-> serial]

Commit(G) ==
    /\ lowSpeed' = G.lowSpeed
    /\ highSpeed' = G.highSpeed
    /\ driveSpeed' = G.driveSpeed
    /\ speed' = G.speed
    /\ MotorOutput' = G.MotorOutput
    /\ attach' = G.attach
    /\ leds' = G.leds
    /\ serial' = G.serial

\* stopTwice: this request and the one before it both delivered 'stop'
Op(op, uri, query) ==
    [op |-> op, uri |-> uri, query |-> query, stopTwice |-> FALSE]

\* The state when setup() has returned, for presets lo and hi
Started(lo, hi) ==
    LET G == setup(PowerOn(lo, hi))
    IN  /\ lowSpeed = G.lowSpeed
        /\ highSpeed = G.highSpeed
        /\ driveSpeed = G.driveSpeed
        /\ speed = G.speed
        /\ MotorOutput = G.MotorOutput
        /\ attach = G.attach
        /\ leds = G.leds
        /\ serial = G.serial
        /\ resp = NoResponse
        /\ last = Op("setup", "", << >>)
        /\ boot = [pc |-> Len(SetupStages) + 1, server |-> TRUE,
                   types |-> ShippedTypes, cfgCount |-> [s \in Slots |-> 1]]
        /\ selHist = << >>
        /\ page = PageLoaded
        /\ thr = [t \in Threads |-> IdleThread]

Init == \E c \in SpeedConfigs : Started(c[1], c[2])

\* What a request supplies, read off its query string: used to record the
\* history of speed commands and to state the properties.
\* The parameters of a query string that are named go (the server compares
\* parameter names ignoring case)
GoParams(q) ==
    { i \in 1..Len(q) :
        /\ Len(q[i].key) = 2
        /\ tolower(q[i].key[1]) = "g"
        /\ tolower(q[i].key[2]) = "o" }

\* The request supplies a command token
HasToken(q) == GoParams(q) # {}

\* The command token of a request that supplies one
TokenOf(q) == q[CHOOSE i \in GoParams(q) : \A j \in GoParams(q) : i <= j].val

\* The query string and the token fit the handler's buffers with their NUL
FitsBuffers(q) ==
    /\ QueryLen(q) < QueryBufLen
    /\ Len(TokenOf(q)) < VariableBufLen

\* The request hands token t to the command decoder
Delivers(q, t) == HasToken(q) /\ FitsBuffers(q) /\ TokenOf(q) = t

\* The history window after one more speed command
Remember(h, t) == IF h = << >> THEN << t >> ELSE << h[Len(h)], t >>

\* A client requests the control page
IndexRequest ==
    LET out == index_handler(Globals)
    IN  /\ boot.server
        /\ Commit(out.G)
        /\ resp' = out.resp
        /\ last' = Op("GET", "/", << >>)
        /\ UNCHANGED << boot, selHist, page, thr >>

\* A client requests /action with query string q
ActionRequest(q) ==
    LET out == cmd_handler(Globals, q)
    IN  /\ boot.server
        /\ UNCHANGED << boot, page, thr >>
        /\ Commit(out.G)
        /\ resp' = out.resp
        /\ last' = [Op("GET", "/action", q) EXCEPT !.stopTwice =
                        /\ Delivers(q, S_stop)
                        /\ last.op = "GET"
                        /\ last.uri = "/action"
                        /\ Delivers(last.query, S_stop)]
        /\ selHist' = IF HasToken(q) /\ FitsBuffers(q) /\ TokenOf(q) = S_low
                      THEN Remember(selHist, "low")
                      ELSE IF HasToken(q) /\ FitsBuffers(q) /\ TokenOf(q) = S_high
                      THEN Remember(selHist, "high")
                      ELSE selHist

Next == IndexRequest \/ \E q \in Queries : ActionRequest(q)

Spec == Init /\ [][Next]_vars

----------------------------------------------------------------------------
(* The server with the Arduino main loop: once setup() has returned, the   *)
(* core calls loop() over and over, between and during the requests.       *)

\* Mutant: an idle watchdog that stops the motors on every pass
loop_IdleStop(G) == Motor_STOP(G)

\* void loop(): the body is empty
loop(G) == G

\* One pass of loop()
Loop ==
    /\ boot.pc > Len(SetupStages)
    /\ Commit(loop(Globals))
    /\ last' = Op("loop", "", << >>)
    /\ UNCHANGED << resp, boot, selHist, page, thr >>

IdleQueries ==
    { << Param(S_go, t) >> :
        t \in { S_forward, S_left, S_stop, S_high, S_low, S_functionA,
                << "b", "a", "n", "a", "n", "a" >>, Fill("x", VariableBufLen) } }
    \cup { << >> }

InitIdle == Init

NextIdle == Loop \/ IndexRequest \/ \E q \in IdleQueries : ActionRequest(q)

SpecIdle == InitIdle /\ [][NextIdle]_vars

----------------------------------------------------------------------------
(* The drive commands under every low preset of a range: lowSpeed is the   *)
(* percentage the drive layer is handed, with either sign.                 *)

PctValues == ((-MaxPct)..MaxPct) \cup { -FarPct, FarPct }

DriveTokens == { S_forward, S_backward, S_left, S_right }

InitDrive == \E lo \in PctValues : Started(lo, DefaultHighSpeed)

NextDrive == \E t \in DriveTokens : ActionRequest(<< Param(S_go, t) >>)

SpecDrive == InitDrive /\ [][NextDrive]_vars

----------------------------------------------------------------------------
(* An operator at the control page.  One pointer; a key that is held       *)
(* repeats its keydown event.                                              *)

\* What the page's actions leave alone: the robot
Robot ==
    << lowSpeed, highSpeed, driveSpeed, speed, MotorOutput, attach, leds,
       serial, resp, last, boot, selHist, thr >>

CanSend == Len(page.js.sent) < MaxSent

PointerDown(target) ==
    /\ CanSend
    /\ ~page.pointer.down
    /\ LET K == IF target \in Buttons THEN sendData(page.js, target)
                ELSE page.js
       IN  page' = [page EXCEPT
                      !.js = K,
                      !.pointer = [down |-> TRUE, on |-> target,
                                   idx |-> SentBy(page.js, K)],
                      !.event = [type |-> "pointerdown", target |-> target,
                                 press |-> target, idx |-> 0]]
    /\ UNCHANGED Robot

PointerUp(target) ==
    /\ CanSend
    /\ page.pointer.down
    /\ page' = [page EXCEPT
                  !.js = IF target \in Buttons THEN releaseData(@) ELSE @,
                  !.pointer = [down |-> FALSE, on |-> "", idx |-> 0],
                  !.event = [type |-> "pointerup", target |-> target,
                             press |-> page.pointer.on,
                             idx |-> page.pointer.idx]]
    /\ UNCHANGED Robot

KeyDown(code) ==
    /\ CanSend
    /\ LET K == OnKeyDown(page.js, code)
       IN  page' = [page EXCEPT
                      !.js = K,
                      !.keys[code] = IF SentBy(page.js, K) > 0
                                     THEN SentBy(page.js, K)
                                     ELSE IF @ = -1 THEN 0 ELSE @,
                      !.event = [type |-> "keydown", target |-> code,
                                 press |-> code, idx |-> 0],
                      !.sinceKeyUp = IF SentBy(page.js, K) > 0 THEN @ + 1
                                     ELSE @]
    /\ UNCHANGED Robot

KeyUp(code) ==
    /\ CanSend
    /\ page.keys[code] # -1
    /\ page' = [page EXCEPT
                  !.js = OnKeyUp(@),
                  !.keys[code] = -1,
                  !.event = [type |-> "keyup", target |-> code,
                             press |-> code, idx |-> page.keys[code]],
                  !.sinceKeyUp = 0]
    /\ UNCHANGED Robot

ToggleChange ==
    /\ CanSend
    /\ page' = [page EXCEPT
                  !.js = OnToggleChange(@),
                  !.event = [type |-> "change", target |-> "toggle-switch",
                             press |-> "", idx |-> 0]]
    /\ UNCHANGED Robot

InitPage == Started(DefaultLowSpeed, DefaultHighSpeed)

NextPage ==
    \/ \E target \in PointerTargets : PointerDown(target)
    \/ \E target \in PointerTargets : PointerUp(target)
    \/ \E code \in KeySample : KeyDown(code)
    \/ \E code \in KeySample : KeyUp(code)
    \/ ToggleChange

SpecPage == InitPage /\ [][NextPage]_vars

----------------------------------------------------------------------------
(* cmd_handler statement by statement.  With one execution at a time this  *)
(* is the server as built; with two it is the handler on a transport that  *)
(* runs requests on separate threads, the handler having no lock.          *)

StepQueries ==
    { << Param(S_go, t) >> :
        t \in { S_forward, S_backward, S_high, S_low, S_stop, S_functionA,
                << "b", "a", "n", "a", "n", "a" >>, Fill("x", VariableBufLen) } }
    \cup { << >> }

\* What the handler's statements leave alone
Elsewhere == << boot, selHist, page >>

\* Execution t enters cmd_handler with query string q and parses it; a
\* request without a usable token is answered 404 at once
Enter(t, q) ==
    /\ boot.server
    /\ thr[t].status # "run"
    /\ LET ok == /\ httpd_req_get_url_query_str(q, QueryBufLen) = "ESP_OK"
                 /\ httpd_query_key_value(q, S_go, VariableBufLen).err = "ESP_OK"
           busy == \E u \in Threads : thr[u].status = "run"
           T == [IdleThread EXCEPT
                   !.query = q, !.concurrent = busy,
                   !.start = IF busy THEN << >> ELSE Globals]
       IN  IF ok
           THEN /\ thr' = [u \in Threads |->
                            IF u = t
                            THEN [T EXCEPT
                                    !.status = "run", !.pc = 1,
                                    !.variable =
                                      httpd_query_key_value(q, S_go,
                                                            VariableBufLen).val]
                            ELSE IF thr[u].status = "run"
                            THEN [thr[u] EXCEPT !.concurrent = TRUE]
                            ELSE thr[u]]
                /\ UNCHANGED << resp, last >>
           ELSE /\ thr' = [thr EXCEPT ![t] =
                            [T EXCEPT !.status = "done",
                                      !.trace = << "httpd_resp_send_404" >>]]
                /\ resp' = httpd_resp_send_404
                /\ last' = Op("GET", "/action", q)
    /\ UNCHANGED << lowSpeed, highSpeed, driveSpeed, speed, MotorOutput,
                    attach, leds, serial >>
    /\ UNCHANGED Elsewhere

\* Execution t executes its next statement
Step(t) ==
    /\ thr[t].status = "run"
    /\ LET T == thr[t]
           st == Statements(T.variable)[T.pc]
       IN  /\ Commit(StatementGlobals(Globals, T, st))
           /\ \E c \in ChoicesAt(st) :
                thr' = [thr EXCEPT ![t] = StatementLocals(Globals, T, st, c)]
           /\ IF st.op = "respond"
              THEN /\ resp' = CommandResponse(T.res)
                   /\ last' = Op("GET", "/action", T.query)
              ELSE UNCHANGED << resp, last >>
    /\ UNCHANGED Elsewhere

InitSteps == Init

\* One execution at a time: the HTTP server task handles a request to its
\* end before it accepts the next
NextSteps == (\E q \in StepQueries : Enter(1, q)) \/ Step(1)

SpecSteps == InitSteps /\ [][NextSteps]_vars

\* A completed execution leaves the globals and the response of cmd_handler
StepsAgree ==
    \A t \in Threads :
       (thr[t].status = "done" /\ ~thr[t].concurrent
          /\ \A u \in Threads : thr[u].status # "run") =>
       LET out == cmd_handler(thr[t].start, thr[t].query)
       IN  last.query = thr[t].query => (Globals = out.G /\ resp = out.resp)

\* Two executions, one command each, interleaved statement by statement
RaceTokens == [t \in Threads |-> IF t = 1 THEN { S_forward, S_stop }
                                 ELSE { S_backward, S_high }]

InitRace == Started(DefaultLowSpeed, DefaultHighSpeed)

NextRace ==
    \E t \in Threads :
       \/ \E v \in RaceTokens[t] :
            thr[t].status = "idle" /\ Enter(t, << Param(S_go, v) >>)
       \/ Step(t)

SpecRace == InitRace /\ [][NextRace]_vars

----------------------------------------------------------------------------
(* Startup, statement by statement, for any motor types handed to          *)
(* ConfigureMotorOutput.  Once startServer has registered the handlers,    *)
(* the server task answers requests while setup() finishes.                *)

TypeConfigs ==
    { [main |-> m, last |-> l] :
        m \in MotorTypes, l \in { "MG90_CR", "STD_SERVO", "CUSTOM" } }

BootQueries ==
    { << Param(S_go, t) >> : t \in { S_forward, S_high, S_stop } }

InitBoot ==
    \E ty \in TypeConfigs :
       LET G == PowerOn(DefaultLowSpeed, DefaultHighSpeed)
       IN  /\ lowSpeed = G.lowSpeed
           /\ highSpeed = G.highSpeed
           /\ driveSpeed = G.driveSpeed
           /\ speed = G.speed
           /\ MotorOutput = G.MotorOutput
           /\ attach = G.attach
           /\ leds = G.leds
           /\ serial = G.serial
           /\ resp = NoResponse
           /\ last = Op("setup", "", << >>)
           /\ boot = [pc |-> 1, server |-> FALSE, types |-> ty,
                      cfgCount |-> [s \in Slots |-> 0]]
           /\ selHist = << >>
           /\ page = PageLoaded
           /\ thr = [t \in Threads |-> IdleThread]

\* setup() executes its next statement.  httpd_start may fail, in which
\* case no handler is registered.
SetupStep ==
    /\ boot.pc <= Len(SetupStages)
    /\ LET st == SetupStages[boot.pc]
       IN  /\ Commit(RunStage(Globals, st, boot.types))
           /\ \E ok \in BOOLEAN :
                boot' = [boot EXCEPT
                           !.pc = @ + 1,
                           !.server = IF st.op = "startServer" THEN ok ELSE @,
                           !.cfgCount = IF st.op = "ConfigureMotorOutput"
                                        THEN [@ EXCEPT ![st.slot] = @ + 1]
                                        ELSE @]
    /\ UNCHANGED << resp, last, selHist, page, thr >>

NextBoot ==
    \/ SetupStep
    \/ IndexRequest
    \/ \E q \in BootQueries : ActionRequest(q)

SpecBoot == InitBoot /\ [][NextBoot]_vars

RECURSIVE RunStages(_, _, _)
\* The globals after the first n statements of setup()
RunStages(G, n, types) ==
    IF n = 0 THEN G
    ELSE RunStage(RunStages(G, n - 1, types), SetupStages[n], types)

\* Statement by statement, setup() as shipped ends in the state of setup()
SetupStagesAgree ==
    RunStages(PowerOn(DefaultLowSpeed, DefaultHighSpeed), Len(SetupStages),
              ShippedTypes)
      = setup(PowerOn(DefaultLowSpeed, DefaultHighSpeed))

----------------------------------------------------------------------------
(* Vocabulary of the properties *)

\* The last request was GET /action
ActionHandled == last.op = "GET" /\ last.uri = "/action"

\* The last request handed a token to the command decoder
CommandHandled ==
    /\ ActionHandled
    /\ HasToken(last.query)
    /\ FitsBuffers(last.query)

\* The last request handed token t to the command decoder
Handled(t) == CommandHandled /\ TokenOf(last.query) = t

AllSlotsAt(a) == \A s \in Slots : MotorOutput[s] = a

OkResponse ==
    /\ resp.status = 200
    /\ resp.body = ""
    /\ << "Access-Control-Allow-Origin", "*" >> \in resp.hdrs

FailResponse == resp.status = 500

TypeOK ==
    /\ SetupStagesAgree
    /\ driveSpeed \in { lowSpeed, highSpeed }
    /\ speed \in { "low", "Low", "High" }
    /\ MotorOutput \in [Slots -> Int]
    /\ resp.status \in { 0, 200, 404, 500 }

----------------------------------------------------------------------------
----------------------------------------------------------------------------
(* C2: whenever 'stop' has been handed to the command decoder, whatever    *)
(* commands came before and whichever speed is selected, all twelve slots  *)
(* are at exactly 90 and the response is Ok.                               *)
C2_StopNeutralOk ==
    Handled(S_stop) => (AllSlotsAt(90) /\ OkResponse)

\* 'stop' was handled with the high preset selected and a preset beyond
\* 100 percent configured.
C2_Witness ==
    /\ Handled(S_stop)
    /\ driveSpeed = highSpeed
    /\ highSpeed > 100
    /\ selHist = << "low", "high" >>
    /\ AllSlotsAt(90)
    /\ OkResponse

----------------------------------------------------------------------------
\* The sign table of the drive commands: the percentage each group is
\* driven with, for magnitude m
LeftPctOf(t, m) ==
    IF t = S_forward \/ t = S_left THEN -m ELSE m

RightPctOf(t, m) ==
    IF t = S_backward \/ t = S_left THEN -m ELSE m

(* C3: a step that hands a drive command to the decoder, taken with active *)
(* magnitude m = driveSpeed, ends with every slot 1..6 at                  *)
(* percentToServoAngle(L) and every slot 7..12 at percentToServoAngle(R),  *)
(* (L,R) being (-m,+m) for forward, (+m,-m) for backward, (-m,-m) for left *)
(* and (+m,+m) for right.                                                  *)
C3_DriveWritesGroups ==
    [][ (CommandHandled' /\ TokenOf(last'.query) \in DriveTokens) =>
          LET t == TokenOf(last'.query)
          IN  /\ \A s \in 1..6 :
                   MotorOutput'[s] = percentToServoAngle(LeftPctOf(t, driveSpeed))
              /\ \A s \in 7..12 :
                   MotorOutput'[s] = percentToServoAngle(RightPctOf(t, driveSpeed))
      ]_vars

\* 'backward' at magnitude 90: left group at 171, right group at 9
C3_Witness ==
    /\ Handled(S_backward)
    /\ driveSpeed = 90
    /\ \A s \in 1..6 : MotorOutput[s] = 171
    /\ \A s \in 7..12 : MotorOutput[s] = 9

----------------------------------------------------------------------------
\* The magnitude chosen by the most recent speed command, the low one when
\* there has been none since startup
ChosenMagnitude ==
    IF selHist # << >> /\ selHist[Len(selHist)] = "high"
    THEN highSpeed ELSE lowSpeed

(* C4: after any sequence of commands, the outputs left by a drive command *)
(* are those of the magnitude chosen by the most recent 'low' or 'high'    *)
(* command before it (the low magnitude when there was none): the last     *)
(* selection wins, selections do not stack.                                *)
C4_LastSelectionWins ==
    \A t \in DriveTokens :
       Handled(t) =>
         /\ driveSpeed = ChosenMagnitude
         /\ MotorOutput[1] = percentToServoAngle(LeftPctOf(t, ChosenMagnitude))
         /\ MotorOutput[NumSlots] =
                percentToServoAngle(RightPctOf(t, ChosenMagnitude))

\* high, then low, then forward with the shipped presets: the outputs are
\* those of 60 percent (36 and 144), not of 90 percent (9 and 171)
C4_Witness ==
    /\ selHist = << "high", "low" >>
    /\ Handled(S_forward)
    /\ lowSpeed = 60
    /\ highSpeed = 90
    /\ MotorOutput[1] = 36
    /\ MotorOutput[NumSlots] = 144

----------------------------------------------------------------------------
(* C5: when a drive command has handed a percentage pct in [-100,100] to   *)
(* percentToServoAngle, the angle written is in [0,180]; it is 0 for       *)
(* pct = -100, 90 for pct = 0 and 180 for pct = 100.                       *)
C5_AngleInRange ==
    \A t \in DriveTokens :
       (Handled(t) /\ driveSpeed \in (-100)..100) =>
          LET pl == LeftPctOf(t, driveSpeed)
              pr == RightPctOf(t, driveSpeed)
          IN  /\ \A s \in Slots : MotorOutput[s] \in 0..180
              /\ pl = -100 => MotorOutput[1] = 0
              /\ pl = 0 => MotorOutput[1] = 90
              /\ pl = 100 => MotorOutput[1] = 180
              /\ pr = -100 => MotorOutput[NumSlots] = 0
              /\ pr = 0 => MotorOutput[NumSlots] = 90
              /\ pr = 100 => MotorOutput[NumSlots] = 180

\* 'forward' at magnitude 100: -100 gave 0 and +100 gave 180
C5_Witness ==
    /\ Handled(S_forward)
    /\ driveSpeed = 100
    /\ MotorOutput[1] = 0
    /\ MotorOutput[NumSlots] = 180

----------------------------------------------------------------------------
(* C6: when a drive command has handed a percentage outside [-100,100] to  *)
(* percentToServoAngle, the angle written is the one of 100 when the       *)
(* percentage is above 100 and the one of -100 when it is below -100.      *)
C6_ClampedBeforeMapping ==
    \A t \in DriveTokens :
       Handled(t) =>
          LET pl == LeftPctOf(t, driveSpeed)
              pr == RightPctOf(t, driveSpeed)
          IN  /\ pl > 100 => MotorOutput[1] = percentToServoAngle(100)
              /\ pl < -100 => MotorOutput[1] = percentToServoAngle(-100)
              /\ pr > 100 => MotorOutput[NumSlots] = percentToServoAngle(100)
              /\ pr < -100 => MotorOutput[NumSlots] = percentToServoAngle(-100)

\* 'forward' at a magnitude far beyond 100: the angles of -100 and of 100
C6_Witness ==
    /\ Handled(S_forward)
    /\ driveSpeed > MaxPct
    /\ MotorOutput[1] = 0
    /\ MotorOutput[NumSlots] = 180

----------------------------------------------------------------------------
(* C7: in every state reached from startup by any sequence of requests,    *)
(* whatever integers are configured as the low and high presets, each of   *)
(* the twelve slots is at an integer angle in [0,180].                     *)
C7_SlotsInRange ==
    \A s \in Slots : MotorOutput[s] \in 0..180

\* 'backward' with a selected preset beyond 100 percent
C7_Witness ==
    /\ Handled(S_backward)
    /\ driveSpeed > 100
    /\ driveSpeed = highSpeed
    /\ MotorOutput[1] = 180
    /\ MotorOutput[NumSlots] = 0

----------------------------------------------------------------------------
----------------------------------------------------------------------------
\* The state the command dispatch can change
CoreState == << leds, driveSpeed, speed, MotorOutput >>

(* C9: a step that handles a GET /action supplying no command token sends  *)
(* the not-found response and leaves the indicator colour, the speed state *)
(* and all twelve slot positions as they were.                             *)
C9_NoTokenNotFound ==
    [][ (ActionHandled' /\ ~HasToken(last'.query)) =>
          (resp'.status = 404 /\ CoreState' = CoreState) ]_vars

\* A request without go= arrived while the robot was driving at the high
\* preset: it is still driving, the indicator still green
C9_Witness ==
    /\ ActionHandled
    /\ ~HasToken(last.query)
    /\ resp.status = 404
    /\ driveSpeed = highSpeed
    /\ speed = "High"
    /\ MotorOutput[1] # 90
    /\ leds[0] = << 0, 255, 0 >>

----------------------------------------------------------------------------
(* C10: whenever a GET /action supplying a non-empty token that is not one *)
(* of the recognized tokens has been handled, whatever the length of the   *)
(* token and of the query string, the response is the server error and all *)
(* twelve slots are at 90.                                                 *)
C10_AnyUnknownFailsSafe ==
    ( /\ ActionHandled
      /\ HasToken(last.query)
      /\ TokenOf(last.query) # << >>
      /\ TokenOf(last.query) \notin RecognizedTokens )
        => (FailResponse /\ AllSlotsAt(90))

----------------------------------------------------------------------------
(* C11: a step that handles 'stop' right after 'stop' was handled leaves   *)
(* the slot positions, the speed state and the indicator colour as the     *)
(* first 'stop' left them: twice is the same as once.                      *)
C11_StopIdempotent ==
    [][ last'.stopTwice => CoreState' = CoreState ]_vars

\* 'stop' was handled twice in a row with the high preset selected
C11_Witness ==
    /\ last.stopTwice
    /\ Handled(S_stop)
    /\ speed = "High"
    /\ AllSlotsAt(90)
    /\ leds[0] = << 255, 0, 0 >>

----------------------------------------------------------------------------
\* The colour the indicator is to show once token t has been handled
IndicatorFor(t) ==
    IF t = S_high THEN << 255, 0, 255 >>
    ELSE IF t = S_low THEN << 255, 255, 0 >>
    ELSE IF t \in { S_functionA, S_functionB, S_functionC, S_functionD }
         THEN << 0, 255, 255 >>
    ELSE IF t \in { S_forward, S_backward, S_left, S_right }
         THEN << 0, 255, 0 >>
    ELSE << 255, 0, 0 >>

----------------------------------------------------------------------------
(* C13: in every reachable state the active magnitude driveSpeed is the    *)
(* low preset when the selected mode is Low and the high preset when it is *)
(* High, there is no third mode, and the mode at startup is Low.           *)
C13_MagnitudeMatchesMode ==
    /\ speed \in { "low", "Low", "High" }
    /\ speed \in { "low", "Low" } => driveSpeed = lowSpeed
    /\ speed = "High" => driveSpeed = highSpeed
    /\ last.op = "setup" => speed \in { "low", "Low" }

\* The high mode is selected, with presets that differ
C13_Witness ==
    /\ Handled(S_high)
    /\ speed = "High"
    /\ driveSpeed = highSpeed
    /\ highSpeed # lowSpeed

----------------------------------------------------------------------------
(* C14: a step changes the speed state (presets, active magnitude, mode)   *)
(* only if it hands 'low' or 'high' to the decoder: drive commands, stop,  *)
(* functionA..D, unknown tokens, requests without a token and requests for *)
(* the control page leave it as it was.                                    *)
C14_SpeedStateFrame ==
    [][ << lowSpeed, highSpeed, driveSpeed, speed >>'
            # << lowSpeed, highSpeed, driveSpeed, speed >>
          => /\ ActionHandled'
             /\ \/ Delivers(last'.query, S_low)
                \/ Delivers(last'.query, S_high) ]_vars

\* 'stop' was handled after 'high': the high selection is still in force
C14_Witness ==
    /\ Handled(S_stop)
    /\ selHist # << >>
    /\ selHist[Len(selHist)] = "high"
    /\ speed = "High"
    /\ driveSpeed = highSpeed
    /\ highSpeed # lowSpeed

----------------------------------------------------------------------------
\* pct clamped to [-100,100]
Clamped(pct) == IF pct < -100 THEN -100 ELSE IF pct > 100 THEN 100 ELSE pct

\* The floor of the proportional map of pct
FloorAngle(pct) == ((Clamped(pct) + 100) * 180) \div 200

(* C19: the angle a drive command writes for percentage pct is the integer *)
(* quotient ((c + 100) * 180) div 200, c being pct clamped to [-100,100]:  *)
(* truncated, never rounded to nearest (1 gives 90 and -1 gives 89).       *)
C19_FloorMap ==
    \A t \in DriveTokens :
       Handled(t) =>
         /\ MotorOutput[1] = FloorAngle(LeftPctOf(t, driveSpeed))
         /\ MotorOutput[NumSlots] = FloorAngle(RightPctOf(t, driveSpeed))
         /\ LeftPctOf(t, driveSpeed) = 1 => MotorOutput[1] = 90
         /\ LeftPctOf(t, driveSpeed) = -1 => MotorOutput[1] = 89

\* 'forward' at magnitude 1: -1 gave 89 and +1 gave 90
C19_Witness ==
    /\ Handled(S_forward)
    /\ driveSpeed = 1
    /\ MotorOutput[1] = 89
    /\ MotorOutput[NumSlots] = 90

----------------------------------------------------------------------------
\* The motor type setup() configured slot s with
SlotType(s) == IF s = NumSlots THEN boot.types.last ELSE boot.types.main

\* Timing a is that of the first table entry of type t, or the default
\* 50 Hz, 1000 to 2000 microseconds when the table has no entry of type t
FirstMatchOrDefault(t, a) ==
    LET m == { i \in 1..Len(motorTypeConfigs) : motorTypeConfigs[i].type = t }
    IN  IF m = {}
        THEN a.pwmFreq = 50 /\ a.minPulseUs = 1000 /\ a.maxPulseUs = 2000
        ELSE \E i \in m :
               /\ \A j \in m : i <= j
               /\ a.pwmFreq = motorTypeConfigs[i].pwmFreq
               /\ a.minPulseUs = motorTypeConfigs[i].minPulseUs
               /\ a.maxPulseUs = motorTypeConfigs[i].maxPulseUs

(* C16: every slot that has been configured is attached with the timing of *)
(* the first table entry of its motor type, and with the default 50 Hz,    *)
(* 1000 to 2000 microseconds when no entry matches (CUSTOM); the lookup    *)
(* yields a timing for every motor type, and configuring a slot changes    *)
(* neither the speed state nor the indicator.                              *)
C16_ProfileLookup ==
    /\ [](\A s \in Slots :
            boot.cfgCount[s] >= 1 => FirstMatchOrDefault(SlotType(s), attach[s]))
    /\ [][ boot'.cfgCount # boot.cfgCount =>
             << lowSpeed, highSpeed, driveSpeed, speed, leds >>'
               = << lowSpeed, highSpeed, driveSpeed, speed, leds >> ]_vars

\* Slot 12 was configured as CUSTOM, which the table does not list
C16_Witness ==
    /\ boot.types.last = "CUSTOM"
    /\ boot.cfgCount[NumSlots] = 1
    /\ attach[NumSlots].pwmFreq = 50
    /\ attach[NumSlots].minPulseUs = 1000
    /\ attach[NumSlots].maxPulseUs = 2000

----------------------------------------------------------------------------
\* setup() has returned
SetupDone == boot.pc > Len(SetupStages)

\* What holds of the slots in every state of startup and afterwards
StartupSlots ==
    /\ \A s \in Slots : boot.cfgCount[s] <= 1
    /\ boot.server =>
          \A s \in Slots : boot.cfgCount[s] = 1 /\ attach[s].pin = IO_PINS[s]
    /\ last.op = "GET" => \A s \in Slots : attach[s].pin # -1
    /\ last.op = "setup" =>
          \A s \in Slots : boot.cfgCount[s] = 1 => MotorOutput[s] = 90
    /\ (SetupDone /\ last.op = "setup") =>
          /\ AllSlotsAt(90)
          /\ speed \in { "low", "Low" }
          /\ driveSpeed = lowSpeed

(* C20: startup configures each slot 1..12 exactly once, writing 90 to it, *)
(* and has done so when the HTTP server starts, so no request is handled   *)
(* while a slot is unattached; when setup() has returned and no request    *)
(* has been handled yet, all twelve slots are at 90 and the mode is Low;   *)
(* no step taken once the server runs attaches a slot again.               *)
C20_ConfiguredBeforeServing ==
    /\ []StartupSlots
    /\ [][ boot.server =>
             (attach' = attach /\ boot'.cfgCount = boot.cfgCount) ]_vars

\* setup() has returned with the server running, before any request
C20_Witness ==
    /\ SetupDone
    /\ boot.server
    /\ last.op = "setup"
    /\ \A s \in Slots : boot.cfgCount[s] = 1 /\ attach[s].pin = IO_PINS[s]
    /\ AllSlotsAt(90)

----------------------------------------------------------------------------
\* The page has just handled the release of a held control
Released ==
    \/ page.event.type = "keyup"
    \/ page.event.type = "pointerup" /\ page.event.target \in Buttons

(* C15: every release of a held control of the page (pointer-up on a       *)
(* button, key-up) sends one stop command; it is sent after the command    *)
(* that the corresponding press sent, so that it is the last one sent.     *)
C15_ReleaseSendsStop ==
    [][ (page' # page /\ Released') =>
          /\ page'.js.sent = Append(page.js.sent, "stop")
          /\ LET i == page'.event.idx
             IN  i > 0 =>
                   /\ i < Len(page'.js.sent)
                   /\ page'.js.sent[i] = PressCommand(page'.event.press)
                   /\ page'.js.sent[Len(page'.js.sent)] = "stop" ]_vars

\* The forward button was pressed and released
C15_Witness ==
    /\ page.event = [type |-> "pointerup", target |-> "forward",
                     press |-> "forward", idx |-> 1]
    /\ page.js.sent = << "forward", "stop" >>

----------------------------------------------------------------------------
\* The globals when setup() has returned with the shipped presets
G0 == setup(PowerOn(DefaultLowSpeed, DefaultHighSpeed))

\* The globals after the two commands, handled one after the other
SerialOutcomes ==
    { cmd_handler(cmd_handler(G0, thr[o[1]].query).G, thr[o[2]].query).G :
        o \in { << 1, 2 >>, << 2, 1 >> } }

BothDone == \A t \in Threads : thr[t].status = "done"

Overlapped == \E t \in Threads : thr[t].concurrent

\* The angles a command writes for one of the two presets
PresetAngles ==
    { 90 } \cup { percentToServoAngle(sign * m) :
                    sign \in { -1, 1 }, m \in { lowSpeed, highSpeed } }

GroupAt(first, lastSlot, a) == \A s \in first..lastSlot : MotorOutput[s] = a

\* The left group holds what forward writes and the right group what
\* backward writes, both at the low preset
MixedGroups ==
    /\ { thr[t].query : t \in Threads }
         = { << Param(S_go, S_forward) >>, << Param(S_go, S_backward) >> }
    /\ GroupAt(1, LeftLast, percentToServoAngle(-lowSpeed))
    /\ GroupAt(LeftLast + 1, NumSlots, percentToServoAngle(-lowSpeed))

\* forward has written one group at the low and the other at the high preset
MixedMagnitudes ==
    /\ { thr[t].query : t \in Threads }
         = { << Param(S_go, S_forward) >>, << Param(S_go, S_high) >> }
    /\ \E m \in { lowSpeed, highSpeed } :
         /\ GroupAt(1, LeftLast, percentToServoAngle(-m))
         /\ GroupAt(LeftLast + 1, NumSlots,
                    percentToServoAngle(lowSpeed + highSpeed - m))

(* C17: two executions of the handler that interleave statement by        *)
(* statement end in states that no serial order of the two commands        *)
(* produces (the witness); every slot still holds an angle one of the      *)
(* commands writes for one of the presets, and two executions that do not  *)
(* overlap end in the state of a serial order.                             *)
C17_SerialUnlessInterleaved ==
    BothDone =>
       /\ \A s \in Slots : MotorOutput[s] \in PresetAngles
       /\ ~Overlapped => Globals \in SerialOutcomes

\* Both executions have returned and the slots are in no serial outcome:
\* the groups come from different commands, or from different magnitudes
C17_Witness ==
    /\ BothDone
    /\ Overlapped
    /\ MotorOutput \notin { G.MotorOutput : G \in SerialOutcomes }
    /\ MixedGroups \/ MixedMagnitudes

----------------------------------------------------------------------------
\* The positions of statement op in the trace of execution t
Positions(t, op) == { i \in 1..Len(thr[t].trace) : thr[t].trace[i] = op }

\* Execution t has parsed a token and executed at least one statement
Decoding(t) ==
    /\ thr[t].status \in { "run", "done" }
    /\ thr[t].trace # << >>
    /\ thr[t].trace[1] # "httpd_resp_send_404"

Mutations == { "assignDriveSpeed", "assignSpeed", "write" }

\* The order of the statements executed so far by execution t
StatementOrder(t) ==
    /\ thr[t].trace[1] = "LED_Green"
    /\ thr[t].pc = 2 => leds = LED_Green(Globals).leds
    /\ thr[t].variable \notin RecognizedTokens =>
          /\ \A i \in Positions(t, "write") :
                \E j \in Positions(t, "LED_Red") : j < i
          /\ (thr[t].status = "run" /\ Positions(t, "write") # {}) =>
                leds = LED_Red(Globals).leds
    /\ thr[t].variable = S_stop =>
          /\ \A i \in Positions(t, "LED_Red") :
                /\ Cardinality({ j \in Positions(t, "write") : j < i }) = NumSlots
                /\ \A j \in Positions(t, "write") : j < i
          /\ Positions(t, "LED_Red") # {} => AllSlotsAt(90)
          /\ (Positions(t, "write") # {} /\ Positions(t, "LED_Red") = {}) =>
                leds = LED_Green(Globals).leds

(* C18: the handler executes the statements for one token in a fixed       *)
(* order: LED_Green comes first, before driveSpeed, speed or a slot is     *)
(* written, for a recognized and for an unknown token alike; for an        *)
(* unknown token LED_Red precedes the fail-safe writes; for stop the       *)
(* twelve writes precede LED_Red.                                          *)
C18_StatementOrder ==
    /\ [](\A t \in Threads : Decoding(t) => StatementOrder(t))
    /\ [][ << driveSpeed, speed, MotorOutput >>'
             # << driveSpeed, speed, MotorOutput >> =>
           \E t \in Threads :
              /\ thr[t].status = "run"
              /\ thr[t].pc > 1
              /\ thr[t].trace[1] = "LED_Green" ]_vars

\* A stop has been handled to its end while the robot was driving
C18_Witness ==
    /\ thr[1].status = "done"
    /\ thr[1].variable = S_stop
    /\ thr[1].start.MotorOutput[1] # 90
    /\ Positions(1, "write") = 3..(NumSlots + 2)
    /\ Positions(1, "LED_Red") = { NumSlots + 3 }
    /\ AllSlotsAt(90)

----------------------------------------------------------------------------
\* The configured speed in force is a magnitude of the percent range
IsMagnitude == driveSpeed \in 0..100

\* What the two groups hold after forward or backward, added up; after left
\* or right, what the groups hold plus what the opposite command writes
OppositeSum ==
    IF Handled(S_forward) \/ Handled(S_backward)
    THEN MotorOutput[1] + MotorOutput[NumSlots]
    ELSE IF Handled(S_left)
    THEN MotorOutput[1] + percentToServoAngle(driveSpeed)
    ELSE MotorOutput[1] + percentToServoAngle(-driveSpeed)

(* C24 as stated: for every magnitude m in 0..100 the angles for -m and m  *)
(* add up to 180, so the opposite groups of a drive command are equally    *)
(* far from 90.                                                            *)
C24_MirrorSymmetry ==
    (IsMagnitude /\ \E t \in DriveTokens : Handled(t)) =>
       /\ percentToServoAngle(-driveSpeed) + percentToServoAngle(driveSpeed) = 180
       /\ OppositeSum = 180

\* The sum of the angles for -m and m under the truncating map
MirrorSum(m) == IF m % 10 = 0 THEN 180 ELSE 179

(* C24 amended: for every magnitude m in 0..100 the angles for -m and m    *)
(* add up to 180 when m is a multiple of 10 and to 179 otherwise, the      *)
(* angle for -m then being one degree further from 90 than the angle for m *)
(* (the shipped presets 60 and 90 are multiples of 10).                    *)
C24_MirrorUpToTruncation ==
    (IsMagnitude /\ \E t \in DriveTokens : Handled(t)) =>
       /\ percentToServoAngle(-driveSpeed) + percentToServoAngle(driveSpeed)
            = MirrorSum(driveSpeed)
       /\ OppositeSum = MirrorSum(driveSpeed)
       /\ 90 - percentToServoAngle(-driveSpeed)
            = (percentToServoAngle(driveSpeed) - 90)
                + (180 - MirrorSum(driveSpeed))

\* 'backward' at magnitude 55: 139 on the left, 40 on the right
C24_Witness ==
    /\ Handled(S_backward)
    /\ driveSpeed = 55
    /\ MotorOutput[1] = 139
    /\ MotorOutput[NumSlots] = 40

----------------------------------------------------------------------------
\* The tokens of the speed selection and of the function hooks
QuietTokens ==
    { S_low, S_high, S_functionA, S_functionB, S_functionC, S_functionD }

(* C23: a request that hands low, high or functionA..functionD to the      *)
(* decoder leaves all twelve slot positions as they were, also while the   *)
(* robot is driving.                                                       *)
C23_QuietCommandsWriteNoSlot ==
    [][ (CommandHandled' /\ TokenOf(last'.query) \in QuietTokens) =>
          MotorOutput' = MotorOutput ]_vars

\* 'high' was handled while the slots held the angles of a drive command at
\* the low preset
C23_Witness ==
    /\ Handled(S_high)
    /\ driveSpeed = highSpeed
    /\ percentToServoAngle(lowSpeed) # percentToServoAngle(highSpeed)
    /\ percentToServoAngle(lowSpeed) # 90
    /\ MotorOutput[NumSlots] = percentToServoAngle(lowSpeed)

----------------------------------------------------------------------------
(* C21: nothing but a request changes a slot position, the speed state or  *)
(* the indicator: a pass of loop() leaves them as they are, so the slots   *)
(* keep the angles of a drive command for as long as no request arrives,   *)
(* and only a request for /action that supplies a token changes a slot.    *)
C21_NoPeriodicWork ==
    /\ [][ last'.op = "loop" =>
             << CoreState, lowSpeed, highSpeed >>'
               = << CoreState, lowSpeed, highSpeed >> ]_vars
    /\ [][ << CoreState, lowSpeed, highSpeed >>'
             # << CoreState, lowSpeed, highSpeed >> => last'.op = "GET" ]_vars
    /\ [][ MotorOutput' # MotorOutput =>
             (ActionHandled' /\ HasToken(last'.query)) ]_vars

\* loop() has run after 'forward': the slots still hold the drive angles
C21_Witness ==
    /\ last.op = "loop"
    /\ serial = << "Forward ", speed >>
    /\ percentToServoAngle(driveSpeed) # 90
    /\ GroupAt(1, LeftLast, percentToServoAngle(-driveSpeed))
    /\ GroupAt(LeftLast + 1, NumSlots, percentToServoAngle(driveSpeed))

----------------------------------------------------------------------------
\* No key is down
NoKeyHeld == \A k \in KeySample : page.keys[k] = -1

(* C22: between two consecutive keyup events the keydown events (of a held *)
(* key that repeats, of further keys) send at most one command in total,   *)
(* and the keydown of a mapped key while no key is held sends exactly the  *)
(* command keyMap gives it.                                                *)
C22_OnePressOneCommand ==
    [][ /\ page'.sinceKeyUp <= 1
        /\ (page' # page /\ page'.event.type = "keydown" /\ NoKeyHeld
              /\ page'.event.target \in DOMAIN keyMap) =>
             page'.js.sent
               = Append(page.js.sent, keyMap[page'.event.target]) ]_vars

====
